---------------------------- MODULE Spec2Model ----------------------------
(***************************************************************************)
(* Helium fingerprints: the hashed fingerprint builders, the inverted      *)
(* (bit-transposed) fingerprint file writer and its two readers            *)
(* (src/src/fingerprints.h), and the index tool's bit count                *)
(* (src/tools/index.cpp).                                                  *)
(*                                                                         *)
(* A Word is a natural number below 2^BitsPerWord; a bit vector is a       *)
(* sequence of Words (C++ index k is TLA+ index k+1).  The file is a       *)
(* header of bytes followed by Words.  All unsigned arithmetic of the      *)
(* source stays far below 2^32 within the bounds, so no wrap is modelled.  *)
(***************************************************************************)
EXTENDS Integers, Sequences, FiniteSets, TLC

(* ------------------------------ bounds -------------------------------- *)
\* sizeof(Word) * 8.  Word comes from bitvec.h (64 on the usual build); the
\* model is parametric in the width and is checked with a narrow Word.
BitsPerWord == 4
\* bitsPerFingerprint given to the writer ranges over 1..MaxBits
MaxBits == 2
\* numFingerprints given to the writer ranges over 0..MaxN
MaxN == 5
\* write may be called up to MaxOverrun times more than numFingerprints
MaxOverrun == 1
\* words_per_fpbit in the header of a file handed to the readers: 0..MaxWpf
MaxWpf == 2
\* numWords given to the fingerprint builders ranges over 1..MaxWords
MaxWords == 2
\* the enumerators produce at most MaxStructs structures per molecule
MaxStructs == 3
\* hash values range over 0..MaxHash
MaxHash == 4
\* the index tool processes at most MaxMolecules molecules
MaxMolecules == 2
\* a file given to FingerprintFile declares 0..MaxCount fingerprints
MaxCount == 2
\* and holds 0..MaxFileWords Words after the count
MaxFileWords == 48
\* read_fingerprint is called at most MaxCalls times
MaxCalls == 4

(* ------------------------------ words --------------------------------- *)
RECURSIVE Pow2From(_)
Pow2From(n) == IF n = 0 THEN 1 ELSE 2 * Pow2From(n - 1)
Pow2Table == [n \in 0..BitsPerWord |-> Pow2From(n)]
Pow2(n) == Pow2Table[n]

WordMask == Pow2(BitsPerWord) - 1

Min(a, b) == IF a < b THEN a ELSE b
Max(a, b) == IF a > b THEN a ELSE b

\* bit k (0-based) of the word w
WordBit(w, k) == (w \div Pow2(k)) % 2 = 1

\* the built-in & of two Words, bit by bit
RECURSIVE AndFrom(_, _, _)
AndFrom(a, b, k) ==
    IF k = BitsPerWord THEN 0
    ELSE (IF WordBit(a, k) /\ WordBit(b, k) THEN Pow2(k) ELSE 0) + AndFrom(a, b, k + 1)
And(a, b) == AndFrom(a, b, 0)

\* Contents of memory that was allocated (new Word[n]) and never written:
\* any value; the model draws every word of such an array from this set.
IndeterminateWords == {0, WordMask}
Uninitialized(n, g) == [k \in 1..n |-> g]

(* ------------------------- bitvec.h (spec 4.1) ------------------------ *)
\* Bit i lives in word i / bits_per_word, position i % bits_per_word.
\* No bounds checks: a read outside the array is reported as 0 here, a write
\* outside leaves the array itself as it was (callers track such writes).
InBounds(index, bitvec) == index >= 0 /\ index \div BitsPerWord < Len(bitvec)

get(index, bitvec) ==
    /\ InBounds(index, bitvec)
    /\ WordBit(bitvec[(index \div BitsPerWord) + 1], index % BitsPerWord)

set(index, bitvec) ==
    IF ~InBounds(index, bitvec) \/ get(index, bitvec) THEN bitvec
    ELSE [bitvec EXCEPT ![(index \div BitsPerWord) + 1] = @ + Pow2(index % BitsPerWord)]

zero(bitvec, numWords) ==
    [k \in 1..Len(bitvec) |-> IF k <= numWords THEN 0 ELSE bitvec[k]]

RECURSIVE PopCount(_, _)
PopCount(w, k) ==
    IF k = BitsPerWord THEN 0 ELSE (IF WordBit(w, k) THEN 1 ELSE 0) + PopCount(w, k + 1)

RECURSIVE bitvec_count(_, _)
bitvec_count(bitvec, numWords) ==
    IF numWords = 0 THEN 0
    ELSE PopCount(bitvec[numWords], 0) + bitvec_count(bitvec, numWords - 1)

\* A caller's fingerprint buffer holding exactly the bits of the set S:
\* enough words for `bits` bits, at least one.
FpLen(bits) == Max(1, (bits + BitsPerWord - 1) \div BitsPerWord)
RECURSIVE SetBits(_, _)
SetBits(S, bitvec) ==
    IF S = {} THEN bitvec
    ELSE LET b == CHOOSE x \in S : TRUE IN SetBits(S \ {b}, set(b, bitvec))
FromBits(S, bits) == SetBits(S, [k \in 1..FpLen(bits) |-> 0])
BitsOf(bitvec, bits) == {b \in 0..(bits - 1) : get(b, bitvec)}
FingerprintsOf(bits) == {FromBits(S, bits) : S \in SUBSET (0..(bits - 1))}
FingerprintTable == [bits \in 0..MaxBits |-> FingerprintsOf(bits)]
Fingerprints(bits) ==
    IF bits \in DOMAIN FingerprintTable THEN FingerprintTable[bits] ELSE FingerprintsOf(bits)

(* ------------------- InvertedFingerprintFileHeader -------------------- *)
get_magic_number == 1214578689   \* 0x48650001
HeaderSize == 24                 \* sizeof(InvertedFingerprintFileHeader)

Header(magic, bpw, bpf, wpf, wpfb, n) ==
    [magic_number |-> magic, bits_per_word |-> bpw, bits_per_fingerprint |-> bpf,
     words_per_fingerprint |-> wpf, words_per_fpbit |-> wpfb, num_fingerprints |-> n]

NoHeader == Header(0, 0, 0, 0, 0, 0)

\* An unsigned int as it lies in memory and in the file: 4 bytes, low byte first.
Enc32(v) == << v % 256, (v \div 256) % 256, (v \div 65536) % 256, (v \div 16777216) % 256 >>
Dec32(b, at) == b[at] + 256 * b[at + 1] + 65536 * b[at + 2] + 16777216 * b[at + 3]

HeaderBytes(h) ==
    Enc32(h.magic_number) \o Enc32(h.bits_per_word) \o Enc32(h.bits_per_fingerprint)
    \o Enc32(h.words_per_fingerprint) \o Enc32(h.words_per_fpbit) \o Enc32(h.num_fingerprints)

HeaderOfBytes(b) ==
    Header(Dec32(b, 1), Dec32(b, 5), Dec32(b, 9), Dec32(b, 13), Dec32(b, 17), Dec32(b, 21))

\* The file on disk: the bytes of the header region, then the Words after it.
NoFile == [exists |-> FALSE, hdr |-> << >>, data |-> << >>]
File(hdr, data) == [exists |-> TRUE, hdr |-> hdr, data |-> data]

VARIABLES
    \* InvertedFingerprintOutputFile
    wstate,      \* "none", "open", "closed", "threw"
    m_header,    \* the writer's m_header
    m_current,   \* the writer's m_current
    m_data,      \* the writer's matrix, words_per_fpbit * bits_per_fingerprint words
    stray,       \* bit indexes write has set outside m_data
    written,     \* the fingerprints handed to write so far, in order
    file,        \* the file on disk
    \* InvertedFingerprintFile
    rstate,      \* "none", "open", "threw"
    r_header,    \* its m_header
    r_fail,      \* m_ifs is in a failed state
    r_data,      \* its m_data, one row of scratch
    result,      \* the caller's result buffer after the last search
    query,       \* << Q, g >> of the last search: the query and the buffer fill
    \* InvertedFingerprintFileCached
    cstate, c_header, c_data, resultC, queryC,
    \* fingerprint builders and the index tool
    phase,       \* "idle", "paths", "trees", "subgraphs", "done"
    fingerprint, \* the fingerprint buffer
    numWords, hashPrime,
    before,      \* the buffer as it was when the builder in progress was called
    todo,        \* paths.size() - i of the loop of path_fingerprint
    structs,     \* structures hashed into the fingerprint in this call
    bitCounts,   \* the index tool's bitCounts
    \* FingerprintFile
    s_file,      \* the file it is opened on
    s_state,     \* "none", "open"
    s_fail,      \* !m_ifs
    s_pos,       \* the read position of m_ifs, in Words after the count
    m_numFingerprints,
    s_current,   \* m_current
    s_buffer,    \* the caller's fingerprint buffer
    calls        \* per call of read_fingerprint: what it returned, the Words it read

writerVars == << wstate, m_header, m_current, m_data, stray, written >>
readerVars == << rstate, r_header, r_fail, r_data, result, query >>
cachedVars == << cstate, c_header, c_data, resultC, queryC >>
builderVars == << phase, fingerprint, numWords, hashPrime, before, todo, structs, bitCounts >>
scanVars == << s_file, s_state, s_fail, s_pos, m_numFingerprints, s_current, s_buffer, calls >>
vars == << writerVars, file, readerVars, cachedVars, scanVars, builderVars >>

(* -------------------- InvertedFingerprintOutputFile ------------------- *)
\* line 184
WordsPerFpbit(numFingerprints, bits_per_word) ==
    (numFingerprints + (numFingerprints % bits_per_word)) \div bits_per_word

WriterHeader(bitsPerFingerprint, numFingerprints) ==
    Header(get_magic_number, BitsPerWord, bitsPerFingerprint,
           bitsPerFingerprint \div BitsPerWord,
           WordsPerFpbit(numFingerprints, BitsPerWord), numFingerprints)

\* the literal 64 of line 213: the bits of a Word
RowStride == BitsPerWord

\* line 213
MatrixIndex(h, i, current) == i * h.words_per_fpbit * RowStride + current

\* lines 207-214, from bit i on; st = [data, stray]
RECURSIVE WriteLoop(_, _, _, _, _)
WriteLoop(h, current, fp, i, st) ==
    IF i >= h.bits_per_fingerprint THEN st
    ELSE IF ~get(i, fp) THEN WriteLoop(h, current, fp, i + 1, st)
    ELSE LET index == MatrixIndex(h, i, current) IN
         WriteLoop(h, current, fp, i + 1,
                   IF InBounds(index, st.data)
                   THEN [st EXCEPT !.data = set(index, st.data)]
                   ELSE [st EXCEPT !.stray = @ \cup {index}])

\* The constructor: the header is set up and put into the stream's buffer, the
\* file is created empty, the matrix is allocated and not initialized.
Construct ==
    /\ wstate = "none"
    /\ \E bitsPerFingerprint \in 1..MaxBits, numFingerprints \in 0..MaxN,
          g \in IndeterminateWords :
         LET h == WriterHeader(bitsPerFingerprint, numFingerprints) IN
         /\ m_header' = h
         /\ m_data' = Uninitialized(h.words_per_fpbit * h.bits_per_fingerprint, g)
    /\ wstate' = "open"
    /\ m_current' = 0
    /\ file' = File(<< >>, << >>)
    /\ UNCHANGED << stray, written, readerVars, cachedVars, scanVars, builderVars >>

\* The constructor when the file cannot be opened for writing (line 189).
ConstructFails ==
    /\ wstate = "none"
    /\ wstate' = "threw"
    /\ UNCHANGED << m_header, m_current, m_data, stray, written, file,
                    readerVars, cachedVars, scanVars, builderVars >>

write ==
    /\ wstate = "open"
    /\ m_current < m_header.num_fingerprints + MaxOverrun
    /\ \E fp \in Fingerprints(m_header.bits_per_fingerprint) :
         LET st == WriteLoop(m_header, m_current, fp, 0, [data |-> m_data, stray |-> stray]) IN
         /\ m_data' = st.data
         /\ stray' = st.stray
         /\ written' = Append(written, fp)
    /\ m_current' = m_current + 1
    /\ UNCHANGED << wstate, m_header, file, readerVars, cachedVars, scanVars, builderVars >>

\* The destructor: the matrix follows the buffered header into the file.
Destroy ==
    /\ wstate = "open"
    /\ wstate' = "closed"
    /\ file' = File(HeaderBytes(m_header), m_data)
    /\ UNCHANGED << m_header, m_current, m_data, stray, written,
                    readerVars, cachedVars, scanVars, builderVars >>

(* ------------------------------ streams ------------------------------- *)
\* istream::read of n Words at Word position pos of the data region into buf:
\* a failed stream reads nothing; a short read stores what there is and
\* leaves the stream failed (eofbit and failbit).
StreamRead(fail, data, pos, n, buf) ==
    LET avail == IF fail THEN 0 ELSE Max(0, Min(n, Len(data) - pos)) IN
    [fail |-> fail \/ avail < n,
     buf  |-> [k \in 1..Len(buf) |-> IF k <= avail THEN data[pos + k] ELSE buf[k]]]

\* Values of the header fields the default constructor leaves unset.
IndeterminateFields == {0, 1}

\* lines 157-159 and 234 (304): m_header is default-constructed, which sets
\* magic_number alone, and read overwrites as many of its bytes as the file has.
ReadHeader(f, u) ==
    LET k    == Min(Len(f.hdr), HeaderSize)
        mem0 == HeaderBytes(Header(get_magic_number, u, u, u, u, u))
        mem  == [j \in 1..HeaderSize |-> IF j <= k THEN f.hdr[j] ELSE mem0[j]]
    IN  [header |-> HeaderOfBytes(mem), fail |-> k < HeaderSize]

(* ----------------------- InvertedFingerprintFile ---------------------- *)
\* a check that compares the low half of the magic number only
FileMagicOk_lowHalf(h) == h.magic_number % 65536 = get_magic_number % 65536

\* line 237
FileMagicOk(h) == h.magic_number = get_magic_number

OpenFile ==
    /\ rstate = "none"
    /\ IF ~file.exists
       THEN /\ rstate' = "threw"                                   \* line 231
            /\ UNCHANGED << r_header, r_fail, r_data >>
       ELSE \E u \in IndeterminateFields, g \in IndeterminateWords :
              LET rd == ReadHeader(file, u) IN
              IF ~FileMagicOk(rd.header)
              THEN /\ rstate' = "threw"                            \* line 238
                   /\ UNCHANGED << r_header, r_fail, r_data >>
              ELSE /\ rstate' = "open"
                   /\ r_header' = rd.header
                   /\ r_fail' = rd.fail
                   /\ r_data' = Uninitialized(rd.header.words_per_fpbit, g)   \* line 241
    /\ UNCHANGED << writerVars, file, result, query, cachedVars, scanVars, builderVars >>

\* lines 262-284 from bit i on; st = [first, fail, scratch, result]
RECURSIVE FileSearchLoop(_, _, _, _, _)
FileSearchLoop(h, fdata, Q, i, st) ==
    IF i >= h.bits_per_fingerprint THEN st
    ELSE IF ~get(i, Q) THEN FileSearchLoop(h, fdata, Q, i + 1, st)
    ELSE LET offset == i * h.words_per_fpbit
             \* seekg does nothing on a failed stream, and read then reads nothing
             rd == StreamRead(st.fail, fdata, offset, h.words_per_fpbit, st.scratch)
         IN  FileSearchLoop(h, fdata, Q, i + 1,
                 [first   |-> FALSE,
                  fail    |-> rd.fail,
                  scratch |-> rd.buf,
                  result  |-> [j \in 1..Len(st.result) |->
                                 IF j > h.words_per_fpbit THEN st.result[j]
                                 ELSE IF st.first THEN rd.buf[j]
                                 ELSE And(st.result[j], rd.buf[j])]])

FileSearch(h, fail, scratch, fdata, Q, R) ==
    FileSearchLoop(h, fdata, Q, 0,
                   [first |-> TRUE, fail |-> fail, scratch |-> scratch, result |-> R])

\* search(fingerprint, result): the query Q is any fingerprint of
\* bits_per_fingerprint bits, the result buffer comes from allocate_result
\* (words_per_fpbit words) and holds g in every word before the call.
SearchFile ==
    /\ rstate = "open"
    /\ \E Q \in Fingerprints(r_header.bits_per_fingerprint), g \in IndeterminateWords :
         LET st == FileSearch(r_header, r_fail, r_data, file.data, Q,
                              Uninitialized(r_header.words_per_fpbit, g)) IN
         /\ result' = st.result
         /\ r_fail' = st.fail
         /\ r_data' = st.scratch
         /\ query' = << Q, g >>
    /\ UNCHANGED << writerVars, file, rstate, r_header, cachedVars, scanVars, builderVars >>

(* -------------------- InvertedFingerprintFileCached ------------------- *)
\* line 307
CachedMagicOk(h) == h.magic_number = get_magic_number

OpenCached ==
    /\ cstate = "none"
    /\ IF ~file.exists
       THEN /\ cstate' = "threw"                                   \* line 301
            /\ UNCHANGED << c_header, c_data >>
       ELSE \E u \in IndeterminateFields, g \in IndeterminateWords :
              LET rd == ReadHeader(file, u)
                  n  == rd.header.words_per_fpbit * rd.header.bits_per_fingerprint
              IN
              IF ~CachedMagicOk(rd.header)
              THEN /\ cstate' = "threw"                            \* line 308
                   /\ UNCHANGED << c_header, c_data >>
              ELSE /\ cstate' = "open"
                   /\ c_header' = rd.header
                   \* lines 311-313: allocate, then read the whole matrix
                   /\ c_data' = StreamRead(rd.fail, file.data, 0, n, Uninitialized(n, g)).buf
    /\ UNCHANGED << writerVars, file, readerVars, scanVars, resultC, queryC, builderVars >>

\* a row offset that forgets the row length
CachedOffset_rowIndex(h, i) == i

\* line 345
CachedOffset(h, i) == i * h.words_per_fpbit

\* lines 339-357 from bit i on; st = [first, result]
RECURSIVE CachedSearchLoop(_, _, _, _, _)
CachedSearchLoop(h, data, Q, i, st) ==
    IF i >= h.bits_per_fingerprint THEN st
    ELSE IF ~get(i, Q) THEN CachedSearchLoop(h, data, Q, i + 1, st)
    ELSE LET offset == CachedOffset(h, i) IN
         CachedSearchLoop(h, data, Q, i + 1,
             [first  |-> FALSE,
              result |-> [j \in 1..Len(st.result) |->
                            IF j > h.words_per_fpbit THEN st.result[j]
                            ELSE IF st.first THEN data[offset + j]
                            ELSE And(st.result[j], data[offset + j])]])

CachedSearch(h, data, Q, R) ==
    CachedSearchLoop(h, data, Q, 0, [first |-> TRUE, result |-> R]).result

SearchCached ==
    /\ cstate = "open"
    /\ \E Q \in Fingerprints(c_header.bits_per_fingerprint), g \in IndeterminateWords :
         /\ resultC' = CachedSearch(c_header, c_data, Q,
                                    Uninitialized(c_header.words_per_fpbit, g))
         /\ queryC' = << Q, g >>
    /\ UNCHANGED << writerVars, file, readerVars, scanVars, cstate, c_header, c_data, builderVars >>

(* ------------------------ fingerprint builders ------------------------ *)
\* The enumerators, the canonical codes and boost::hash are outside these
\* sources: a call delivers any number of structures (up to MaxStructs), each
\* with any hash value.
Hashes == 0..MaxHash

\* path_fingerprint without line 39
PathZero_missing(fp, words) == fp

\* line 39
PathZero(fp, words) == zero(fp, words)

\* line 43
PathSetBit(h, prime, fp) == set(h % prime, fp)

\* line 57
CallbackInit(fp, words) == zero(fp, words)

\* the callback without the modulo of line 73
CallbackSetBit_noModulo(h, prime, fp) == set(h, fp)

\* line 73
CallbackSetBit(h, prime, fp) == set(h % prime, fp)

\* lines 37-40: the assertion holds in every state, the buffer is zeroed and
\* enumerate_paths returns its paths.
path_fingerprint_call ==
    /\ phase = "idle" /\ Len(bitCounts) < MaxMolecules
    /\ hashPrime <= numWords * BitsPerWord
    /\ before' = fingerprint
    /\ fingerprint' = PathZero(fingerprint, numWords)
    /\ todo' \in 0..MaxStructs
    /\ structs' = 0
    /\ phase' = "paths"
    /\ UNCHANGED << writerVars, file, readerVars, cachedVars, scanVars, numWords, hashPrime, bitCounts >>

\* lines 41-44, one iteration
path_fingerprint_step ==
    /\ phase = "paths" /\ todo > 0
    /\ \E h \in Hashes : fingerprint' = PathSetBit(h, hashPrime, fingerprint)
    /\ todo' = todo - 1
    /\ structs' = structs + 1
    /\ UNCHANGED << writerVars, file, readerVars, cachedVars, scanVars,
                    phase, numWords, hashPrime, before, bitCounts >>

\* line 45
path_fingerprint_return ==
    /\ phase = "paths" /\ todo = 0
    /\ phase' = "done"
    /\ UNCHANGED << writerVars, file, readerVars, cachedVars, scanVars,
                    fingerprint, numWords, hashPrime, before, todo, structs, bitCounts >>

\* lines 83-88 with the constructor of the callback, lines 54-58
SubgraphsFingerprint(trees) ==
    /\ phase = "idle" /\ Len(bitCounts) < MaxMolecules
    /\ hashPrime <= numWords * BitsPerWord
    /\ before' = fingerprint
    /\ fingerprint' = CallbackInit(fingerprint, numWords)
    /\ structs' = 0
    /\ phase' = IF trees THEN "trees" ELSE "subgraphs"
    /\ UNCHANGED << writerVars, file, readerVars, cachedVars, scanVars, numWords, hashPrime, todo, bitCounts >>

\* lines 96-100
tree_fingerprint == SubgraphsFingerprint(TRUE)

\* lines 103-107
subgraph_fingerprint == SubgraphsFingerprint(FALSE)

\* operator(), lines 60-74: enumerate_subgraphs delivers one more subgraph
EnumerateSubgraphsCallback ==
    /\ phase \in {"trees", "subgraphs"} /\ structs < MaxStructs
    /\ \E h \in Hashes : fingerprint' = CallbackSetBit(h, hashPrime, fingerprint)
    /\ structs' = structs + 1
    /\ UNCHANGED << writerVars, file, readerVars, cachedVars, scanVars,
                    phase, numWords, hashPrime, before, todo, bitCounts >>

\* enumerate_subgraphs returns, line 88
SubgraphsReturn ==
    /\ phase \in {"trees", "subgraphs"}
    /\ phase' = "done"
    /\ UNCHANGED << writerVars, file, readerVars, cachedVars, scanVars,
                    fingerprint, numWords, hashPrime, before, todo, structs, bitCounts >>

\* IndexTool::run, lines 134-136
RecordBitCount ==
    /\ phase = "done"
    /\ bitCounts' = Append(bitCounts, bitvec_count(fingerprint, numWords))
    /\ phase' = "idle"
    /\ before' = << >>
    /\ UNCHANGED << writerVars, file, readerVars, cachedVars, scanVars,
                    fingerprint, numWords, hashPrime, todo, structs >>

(* --------------------------- FingerprintFile -------------------------- *)
m_numWords == 16   \* line 123

\* A file for FingerprintFile: a 32-bit count when the file is long enough to
\* hold one, then Words; word k of the file holds k modulo the Word range.
NoScanFile == [exists |-> FALSE, hasCount |-> FALSE, count |-> 0, words |-> 0]
ScanFile(hasCount, count, words) ==
    [exists |-> TRUE, hasCount |-> hasCount, count |-> count, words |-> words]
ScanData(f) == [k \in 1..f.words |-> k % (WordMask + 1)]
ScanFiles ==
    {NoScanFile, ScanFile(FALSE, 0, 0)}
    \cup {ScanFile(TRUE, n, w) : n \in 0..MaxCount, w \in 0..MaxFileWords}

\* lines 119-124.  m_current(-1) is the largest unsigned int, whose increment
\* is 0: it is kept as -1 here.  A count that could not be read is left unset.
FingerprintFile ==
    /\ s_state = "none"
    /\ s_state' = "open"
    /\ s_current' = -1
    /\ s_pos' = 0
    /\ IF s_file.exists /\ s_file.hasCount
       THEN s_fail' = FALSE /\ m_numFingerprints' = s_file.count
       ELSE s_fail' = TRUE /\ m_numFingerprints' \in IndeterminateFields
    /\ \E g \in IndeterminateWords : s_buffer' = Uninitialized(m_numWords, g)
    /\ UNCHANGED << writerVars, file, readerVars, cachedVars, builderVars, s_file, calls >>

\* line 141
AtEnd(current, numFingerprints) == current = numFingerprints

\* lines 136-146; the m_numWords calls of read64 read what the file has left
read_fingerprint ==
    /\ s_state = "open" /\ Len(calls) < MaxCalls
    /\ IF s_fail
       THEN /\ calls' = Append(calls, [ok |-> FALSE, words |-> 0])             \* line 139
            /\ UNCHANGED << s_fail, s_pos, s_current, s_buffer >>
       ELSE /\ s_current' = s_current + 1
            /\ IF AtEnd(s_current + 1, m_numFingerprints)
               THEN /\ calls' = Append(calls, [ok |-> FALSE, words |-> 0])     \* line 142
                    /\ UNCHANGED << s_fail, s_pos, s_buffer >>
               ELSE LET rd == StreamRead(FALSE, ScanData(s_file), s_pos, m_numWords, s_buffer)
                        n  == Max(0, Min(m_numWords, s_file.words - s_pos))
                    IN  /\ s_buffer' = rd.buf
                        /\ s_fail' = rd.fail
                        /\ s_pos' = s_pos + n
                        /\ calls' = Append(calls, [ok |-> ~rd.fail, words |-> n])   \* line 145
    /\ UNCHANGED << writerVars, file, readerVars, cachedVars, builderVars,
                    s_file, s_state, m_numFingerprints >>

(* --------------------------- specifications --------------------------- *)
InitWriter ==
    /\ wstate = "none" /\ m_header = NoHeader /\ m_current = 0
    /\ m_data = << >> /\ stray = {} /\ written = << >>
InitReader ==
    /\ rstate = "none" /\ r_header = NoHeader /\ r_fail = FALSE
    /\ r_data = << >> /\ result = << >> /\ query = << >>
InitCached ==
    /\ cstate = "none" /\ c_header = NoHeader
    /\ c_data = << >> /\ resultC = << >> /\ queryC = << >>
InitScan ==
    /\ s_file = NoScanFile /\ s_state = "none" /\ s_fail = FALSE /\ s_pos = 0
    /\ m_numFingerprints = 0 /\ s_current = 0 /\ s_buffer = << >> /\ calls = << >>
InitBuilder ==
    /\ phase = "idle" /\ fingerprint = << >> /\ numWords = 0 /\ hashPrime = 1
    /\ before = << >> /\ todo = 0 /\ structs = 0 /\ bitCounts = << >>

\* An archive is written, closed, then reopened and searched.
Init == InitWriter /\ file = NoFile /\ InitReader /\ InitCached /\ InitScan /\ InitBuilder
Reopen == wstate = "closed" /\ OpenFile
Screen == wstate = "closed" /\ SearchFile
Next == Construct \/ ConstructFails \/ write \/ Destroy \/ Reopen \/ Screen
Spec == Init /\ [][Next]_vars

\* The files handed to the readers: well-formed archives, archives with one
\* byte of the magic number altered, and truncations of both.  Row i of an
\* archive is drawn from SampleWords: its word j is that sample times j.
SampleWords == {3, 6}
RowWord(sample, j) == (sample * j) % (WordMask + 1)
Matrix(rows, w) ==
    [k \in 1..(Len(rows) * w) |-> RowWord(rows[((k - 1) \div w) + 1], ((k - 1) % w) + 1)]
Archives ==
    UNION { { File(HeaderBytes(Header(get_magic_number, BitsPerWord, b, b \div BitsPerWord,
                                      w, w * BitsPerWord)), Matrix(rows, w))
              : rows \in [1..b -> SampleWords] }
            : b \in 1..MaxBits, w \in 0..MaxWpf }
Altered ==
    { File([f.hdr EXCEPT ![k] = (@ + 1) % 256], f.data) : f \in Archives, k \in 1..4 }
\* One header shape is cut at every length below HeaderSize, with and without
\* an altered magic byte; every archive is cut one Word short of its matrix.
Largest(f) ==
    LET h == HeaderOfBytes(f.hdr) IN
    h.bits_per_fingerprint = MaxBits /\ h.words_per_fpbit = MaxWpf
Truncated ==
    { File(SubSeq(f.hdr, 1, n), << >>) :
        f \in {a \in Archives \cup Altered : Largest(a)}, n \in 0..(HeaderSize - 1) }
    \cup { File(f.hdr, SubSeq(f.data, 1, Len(f.data) - 1)) : f \in {a \in Archives : a.data # << >>} }
Files == Archives \cup Altered \cup Truncated \cup {NoFile}

InitRead == InitWriter /\ file \in Files /\ InitReader /\ InitCached /\ InitScan /\ InitBuilder
NextRead == OpenFile \/ SearchFile \/ OpenCached \/ SearchCached
SpecRead == InitRead /\ [][NextRead]_vars

\* IndexTool::run at line 114: the fingerprint buffer is allocated and not
\* initialized; the prime is any value the builders' assertion admits.
InitFp ==
    /\ InitWriter /\ file = NoFile /\ InitReader /\ InitCached /\ InitScan
    /\ numWords \in 1..MaxWords
    /\ hashPrime \in 1..(numWords * BitsPerWord)
    /\ \E g \in IndeterminateWords : fingerprint = Uninitialized(numWords, g)
    /\ phase = "idle" /\ before = << >> /\ todo = 0 /\ structs = 0 /\ bitCounts = << >>
NextFp ==
    \/ path_fingerprint_call \/ path_fingerprint_step \/ path_fingerprint_return
    \/ tree_fingerprint \/ subgraph_fingerprint \/ EnumerateSubgraphsCallback
    \/ SubgraphsReturn \/ RecordBitCount
SpecFp == InitFp /\ [][NextFp]_vars


\* A file is opened with FingerprintFile and read to the end and beyond.
InitStream ==
    /\ InitWriter /\ file = NoFile /\ InitReader /\ InitCached /\ InitBuilder
    /\ s_file \in ScanFiles /\ s_state = "none" /\ s_fail = FALSE /\ s_pos = 0
    /\ m_numFingerprints = 0 /\ s_current = 0 /\ s_buffer = << >> /\ calls = << >>
NextStream == FingerprintFile \/ read_fingerprint
SpecStream == InitStream /\ [][NextStream]_vars

(* ------------------------------- claims ------------------------------- *)
Ceiling(n, d) == (n + d - 1) \div d
AllZero(bitvec) == \A k \in 1..Len(bitvec) : bitvec[k] = 0

\* A well-formed archive: whole header, the magic number, the whole matrix.
FileValid(f) ==
    /\ f.exists /\ Len(f.hdr) = HeaderSize
    /\ LET h == HeaderOfBytes(f.hdr) IN
         /\ h.magic_number = get_magic_number
         /\ Len(f.data) >= h.bits_per_fingerprint * h.words_per_fpbit

\* The archive has been written in full, closed, reopened and searched.
Screened ==
    /\ wstate = "closed" /\ m_current = m_header.num_fingerprints
    /\ rstate = "open" /\ query # << >>

\* C1: after N >= 1 fingerprints were written and the file closed, a search
\* of the reopened file with a query Q that has a bit set leaves bit m of the
\* result set iff every bit of Q is set in fingerprint m, for every m < N.
C1_InvertedScreen ==
    (Screened /\ m_header.num_fingerprints >= 1
       /\ BitsOf(query[1], m_header.bits_per_fingerprint) # {})
    => \A m \in 0..(m_header.num_fingerprints - 1) :
         get(m, result) <=>
           (BitsOf(query[1], m_header.bits_per_fingerprint)
              \subseteq BitsOf(written[m + 1], m_header.bits_per_fingerprint))

\* C2: a search with a query that has no bit set leaves every word of the
\* result 0, in both readers (stated here for well-formed archives).
C2_EmptyQueryZero ==
    /\ (FileValid(file) /\ rstate = "open" /\ query # << >>
          /\ BitsOf(query[1], r_header.bits_per_fingerprint) = {}) => AllZero(result)
    /\ (FileValid(file) /\ cstate = "open" /\ queryC # << >>
          /\ BitsOf(queryC[1], c_header.bits_per_fingerprint) = {}) => AllZero(resultC)

\* C3: the writer's words_per_fpbit is the ceiling of N / bits_per_word, so a
\* row has a bit position for every fingerprint index below N.
C3_WordsPerFpbitIsCeiling ==
    wstate \in {"open", "closed"} =>
      /\ m_header.words_per_fpbit = Ceiling(m_header.num_fingerprints, m_header.bits_per_word)
      /\ m_header.words_per_fpbit * m_header.bits_per_word >= m_header.num_fingerprints

\* A file that has a first 32-bit field, and it is not the magic number.
BadMagic(f) == f.exists /\ Len(f.hdr) >= 4 /\ Dec32(f.hdr, 1) # get_magic_number

\* C4: on a file whose first 32-bit field is not 0x48650001 neither reader is
\* ever constructed, and so no search ever runs on it.
C4_BadMagicRejected ==
    BadMagic(file) =>
      /\ rstate # "open" /\ cstate # "open"
      /\ query = << >> /\ queryC = << >>

\* C4 witness: both constructors have run on such a file and thrown.
C4_Witness == BadMagic(file) /\ rstate = "threw" /\ cstate = "threw"

\* C5: a file shorter than the 24-byte header is never accepted at open, by
\* either reader.
C5_TruncatedHeaderRejected ==
    (file.exists /\ Len(file.hdr) < HeaderSize) => (rstate # "open" /\ cstate # "open")

\* C6: once N fingerprints have been written, a further write fails: it
\* changes no bit of the matrix and sets no bit outside it.
C6_OverrunFails ==
    [][(wstate = "open" /\ m_current >= m_header.num_fingerprints)
         => (m_data' = m_data /\ stray' = stray)]_vars

\* C9: the matrix starts all-zero and after n <= N writes bit m of row i is
\* set iff m < n and bit i of fingerprint m is set, for every row i and every
\* column m of the matrix; no write sets a bit outside the matrix.
C9_Transposition ==
    (wstate = "open" /\ m_current <= m_header.num_fingerprints) =>
      /\ stray = {}
      /\ \A i \in 0..(m_header.bits_per_fingerprint - 1) :
           \A m \in 0..(m_header.words_per_fpbit * m_header.bits_per_word - 1) :
             get(i * m_header.words_per_fpbit * m_header.bits_per_word + m, m_data)
               <=> (m < m_current /\ get(i, written[m + 1]))

\* C10: on the same well-formed archive, after searches with the same query
\* and the same contents of the result buffer, the cached reader and the
\* seeking reader leave the same result, whatever each has searched before.
C10_ReaderEquivalence ==
    (FileValid(file) /\ rstate = "open" /\ cstate = "open"
       /\ query # << >> /\ query = queryC)
    => result = resultC

\* C10 witness: both readers have intersected two rows of two words each into
\* a result that selects something.
C10_Witness ==
    /\ FileValid(file) /\ rstate = "open" /\ cstate = "open"
    /\ query # << >> /\ query = queryC
    /\ Cardinality(BitsOf(query[1], r_header.bits_per_fingerprint)) >= 2
    /\ r_header.words_per_fpbit >= 2
    /\ ~AllZero(result) /\ result = resultC

\* C7: after a builder returns, no bit at an index >= hashPrime is set in
\* the fingerprint, whatever the buffer held before and whatever was hashed.
C7_PrimeBound ==
    phase = "done" =>
      \A i \in hashPrime..(numWords * BitsPerWord - 1) : ~get(i, fingerprint)

\* C7 witness: a builder has returned on a buffer that had a bit at an index
\* >= hashPrime set when it was called, after hashing two structures.
C7_Witness ==
    /\ phase = "done" /\ structs >= 2
    /\ \E i \in hashPrime..(numWords * BitsPerWord - 1) : get(i, before)
    /\ bitvec_count(fingerprint, numWords) >= 1

\* C8: 0 <= bit_count(fp) <= number of structures enumerated <= hashPrime.
C8_BitCountBounds ==
    phase = "done" =>
      /\ 0 <= bitvec_count(fingerprint, numWords)
      /\ bitvec_count(fingerprint, numWords) <= structs
      /\ structs <= hashPrime

\* C8 amended: 0 <= bit_count(fp) <= number of structures enumerated, and
\* bit_count(fp) <= hashPrime; so is the bit count the index tool records.
C8_BitCountBoundsAmended ==
    /\ phase = "done" =>
         /\ 0 <= bitvec_count(fingerprint, numWords)
         /\ bitvec_count(fingerprint, numWords) <= structs
         /\ bitvec_count(fingerprint, numWords) <= hashPrime
    /\ (phase = "idle" /\ bitCounts # << >>) =>
         /\ 0 <= bitCounts[Len(bitCounts)]
         /\ bitCounts[Len(bitCounts)] <= structs
         /\ bitCounts[Len(bitCounts)] <= hashPrime

\* C8 witness: more structures than hashPrime were hashed and every bit
\* below hashPrime is set; the index tool has recorded that count.
C8_Witness ==
    /\ phase = "idle" /\ bitCounts # << >>
    /\ hashPrime >= 2 /\ structs > hashPrime
    /\ bitCounts[Len(bitCounts)] = hashPrime

\* C11: on a file that declares N fingerprints at most N calls of
\* read_fingerprint return true, and once a call has returned false every
\* later call returns false and reads no Word from the file.
C11_StickyEnd ==
    (s_state = "open" /\ s_file.exists /\ s_file.hasCount) =>
      /\ Cardinality({i \in DOMAIN calls : calls[i].ok}) <= s_file.count
      /\ \A i, j \in DOMAIN calls :
           (i < j /\ ~calls[i].ok) => (~calls[j].ok /\ calls[j].words = 0)

=============================================================================
